---- MODULE Spec2Model ----
(***************************************************************************)
(* A model of aoc-times.ts: one run of the command line tool, from the     *)
(* resolution of its arguments, through the single fetch of the private    *)
(* leaderboard, to the rendering of the overall table and the per-day      *)
(* tables, with the pure helpers formatDuration and getPuzzleUnlock.       *)
(*                                                                         *)
(* Conventions.  A JavaScript value that may be undefined or null is a     *)
(* sequence of length at most one: <<>> when absent, <<v>> when present.   *)
(* An object used as a map (members, completion_day_level, a day's parts)  *)
(* or a Map (times, dayAverages) is a sequence of entries or a function    *)
(* whose domain is the set of keys that are present.  A line written with  *)
(* console.log or console.error is a record whose kind names the literal   *)
(* text of the line (the box-drawing borders) and whose other fields are   *)
(* the interpolated values, formatted as the code formats them.            *)
(***************************************************************************)
EXTENDS Integers, Sequences, FiniteSets, TLC

(***************************************************************************)
(* Bounds of the model.                                                    *)
(***************************************************************************)
\* Members of a snapshot of the ranking family.
MaxRanked == 3
\* Members of a snapshot of the daily family.
MaxSolvers == 3
\* num_days of a snapshot.
MaxDays == 2
\* Member-day cells (members times days) of a snapshot of the daily family.
MaxCells == 4
\* Largest input of formatDuration explored on its own.
MaxSeconds == 3700
\* Whole days added to the inputs of formatDuration.
MaxWholeDays == 2

(***************************************************************************)
(* Program constants.                                                      *)
(***************************************************************************)
DAY_1_UNLOCK == 1764565200
SECONDS_PER_DAY == 86400
\* padStart(4) of a rank, padEnd(24) of a name, padStart(7) of a score,
\* slice(0, 14) of the star glyphs, padStart(11) of a duration.
RankWidth == 4
NameWidth == 24
ScoreWidth == 7
StarsWidth == 14
DurationWidth == 11

(***************************************************************************)
(* Optional values and strings.                                            *)
(***************************************************************************)
None == <<>>
Some(v) == <<v>>
IsSome(o) == o # <<>>
Val(o) == o[1]

\* A string is truthy in JavaScript when it is present and not empty.
Truthy(o) == IsSome(o) /\ Val(o) # ""

Min(a, b) == IF a <= b THEN a ELSE b

\* String.prototype.repeat for a count >= 0 (a negative count throws a
\* RangeError: the callers test for it before they use the result).
RECURSIVE repeat(_, _)
repeat(s, n) == IF n <= 0 THEN "" ELSE s \o repeat(s, n - 1)

\* padStart(n) and padEnd(n) with the default filler, a space: a string that
\* is already n long or longer is returned as it is.
padStart(s, n) == repeat(" ", n - Len(s)) \o s
padEnd(s, n) == s \o repeat(" ", n - Len(s))
\* slice(0, n).
slice(s, n) == SubSeq(s, 1, Min(n, Len(s)))

(***************************************************************************)
(* formatDuration and getPuzzleUnlock.                                     *)
(***************************************************************************)
\* A slip formatDuration could have: the hours taken from the whole input,
\* without the remainder modulo a day.
formatDurationHoursOfTotal(seconds) ==
    IF seconds < 0 THEN "N/A"
    ELSE LET days == seconds \div 86400
             hours == seconds \div 3600
             mins == (seconds % 3600) \div 60
             secs == seconds % 60
         IN  IF days > 0
               THEN ToString(days) \o "d " \o ToString(hours) \o "h "
                      \o ToString(mins) \o "m"
             ELSE IF hours > 0
               THEN ToString(hours) \o "h " \o ToString(mins) \o "m "
                      \o ToString(secs) \o "s"
             ELSE IF mins > 0
               THEN ToString(mins) \o "m " \o ToString(secs) \o "s"
             ELSE ToString(secs) \o "s"

\* For seconds >= 0, Math.floor(x / y) is x \div y and the JavaScript % is
\* the TLA+ %.
formatDuration(seconds) ==
    IF seconds < 0 THEN "N/A"
    ELSE LET days == seconds \div 86400
             hours == (seconds % 86400) \div 3600
             mins == (seconds % 3600) \div 60
             secs == seconds % 60
         IN  IF days > 0
               THEN ToString(days) \o "d " \o ToString(hours) \o "h "
                      \o ToString(mins) \o "m"
             ELSE IF hours > 0
               THEN ToString(hours) \o "h " \o ToString(mins) \o "m "
                      \o ToString(secs) \o "s"
             ELSE IF mins > 0
               THEN ToString(mins) \o "m " \o ToString(secs) \o "s"
             ELSE ToString(secs) \o "s"

getPuzzleUnlock(day) == DAY_1_UNLOCK + (day - 1) * SECONDS_PER_DAY

(***************************************************************************)
(* parseArgs.  A command line argument is a record: text is the argument,  *)
(* includesHost is text.includes('adventofcode.com'), validURL tells       *)
(* whether new URL(text) returns (it throws a TypeError otherwise), pathId *)
(* is the group the pattern /leaderboard/private/view/(\d+) captures in    *)
(* the path and viewKey is searchParams.get('view_key').  The environment  *)
(* is a record of the two variables, each absent or a string.              *)
(***************************************************************************)
InvalidUrlMessage ==
    << "Invalid URL. Expected format:",
       "  https://adventofcode.com/2025/leaderboard/private/view/12345?view_key=abc123" >>

UsageMessage ==
    << "Usage:",
       "  npx tsx aoc-times.ts <leaderboard-url>",
       "  npx tsx aoc-times.ts <leaderboard-id> <view-key>",
       "",
       "Or set environment variables:",
       "  ADVENT_OF_CODE_LEADERBOARD_ID=12345",
       "  ADVENT_OF_CODE_VIEW_KEY=abc123",
       "",
       "Find your URL at: https://adventofcode.com/2025/leaderboard/private" >>

\* args[i] of process.argv.slice(2): absent beyond the end.
ArgText(args, i) == IF i <= Len(args) THEN Some(args[i].text) ELSE None

Returned(id, key) ==
    [kind |-> "return", leaderboardId |-> id, viewKey |-> key, stderr |-> <<>>]
Exited(lines) ==
    [kind |-> "exit", leaderboardId |-> "", viewKey |-> "", stderr |-> lines]
Threw(error) ==
    [kind |-> "throw", leaderboardId |-> "", viewKey |-> "", stderr |-> <<error>>]

parseArgs(args, env) ==
    IF Len(args) >= 1 /\ args[1].includesHost
      THEN IF ~args[1].validURL
             THEN Threw("TypeError: Invalid URL")
           ELSE IF ~Truthy(args[1].pathId) \/ ~Truthy(args[1].viewKey)
             THEN Exited(InvalidUrlMessage)
           ELSE Returned(Val(args[1].pathId), Val(args[1].viewKey))
    ELSE IF Truthy(ArgText(args, 1)) /\ Truthy(ArgText(args, 2))
      THEN Returned(args[1].text, args[2].text)
    ELSE IF ~Truthy(env.ADVENT_OF_CODE_LEADERBOARD_ID)
              \/ ~Truthy(env.ADVENT_OF_CODE_VIEW_KEY)
      THEN Exited(UsageMessage)
    ELSE Returned(Val(env.ADVENT_OF_CODE_LEADERBOARD_ID),
                  Val(env.ADVENT_OF_CODE_VIEW_KEY))

(***************************************************************************)
(* The statistics of main.  A Member is a record id, name, stars,          *)
(* local_score, last_star_ts, completion_day_level; completion_day_level   *)
(* is a function from the days that have an entry to the day's parts, and  *)
(* a day's parts are a function from the parts that have an entry (1, 2)   *)
(* to a record get_star_ts.  data.members is the sequence of the entries   *)
(* of the JSON object, in the order of the document: key.index tells       *)
(* whether the key is an array index (the canonical decimal form of an     *)
(* integer below 2^32 - 1, as the key of a member usually is), key.n is    *)
(* the number that identifies the key.                                     *)
(***************************************************************************)
\* Object.values: the values under the keys that are array indices, in
\* ascending numeric order of the key, then the values under the other
\* keys, in the order they were inserted.
ObjectValues(entries) ==
    LET idx == {i \in 1..Len(entries) : entries[i].key.index}
        below(i) == {j \in idx : entries[j].key.n < entries[i].key.n}
        byIndex == [k \in 1..Cardinality(idx) |->
                      entries[CHOOSE i \in idx :
                                Cardinality(below(i)) = k - 1].value]
        others == SelectSeq(entries, LAMBDA e : ~e.key.index)
    IN  byIndex \o [k \in 1..Len(others) |-> others[k].value]

\* A slip the comparator could have: the last star's timestamp compared the
\* other way round.
compareMembersLatestFirst(a, b) ==
    IF b.local_score # a.local_score THEN b.local_score - a.local_score
    ELSE IF b.stars # a.stars THEN b.stars - a.stars
    ELSE b.last_star_ts - a.last_star_ts

\* The comparator of the members sort.
compareMembers(a, b) ==
    IF b.local_score # a.local_score THEN b.local_score - a.local_score
    ELSE IF b.stars # a.stars THEN b.stars - a.stars
    ELSE a.last_star_ts - b.last_star_ts

\* The comparator of the dayCompletions sort.
compareCompletions(a, b) == a.p1 - b.p1

\* The comparator a sort is called with: the one of the members sort or the
\* one of the dayCompletions sort.
compare(by, a, b) ==
    IF by = "members" THEN compareMembers(a, b) ELSE compareCompletions(a, b)

\* Array.prototype.sort, which is stable: every element is inserted after
\* the last element already placed that the comparator does not put after
\* it.
sort(s, by) ==
    LET insert(t, x) ==
            LET k == IF \E j \in 1..Len(t) : compare(by, t[j], x) <= 0
                       THEN CHOOSE j \in 1..Len(t) :
                              /\ compare(by, t[j], x) <= 0
                              /\ \A i \in (j + 1)..Len(t) :
                                    compare(by, t[i], x) > 0
                       ELSE 0
            IN  SubSeq(t, 1, k) \o <<x>> \o SubSeq(t, k + 1, Len(t))
        placed[i \in 0..Len(s)] ==
            IF i = 0 THEN <<>> ELSE insert(placed[i - 1], s[i])
    IN  placed[Len(s)]

\* const members = Object.values(data.members).sort(...)
sortedMembers(data) == sort(ObjectValues(data.members), "members")

\* dayData['1']?.get_star_ts and dayData['2']?.get_star_ts.
getStarTs(dayData, part) ==
    IF part \in DOMAIN dayData THEN Some(dayData[part].get_star_ts) ELSE None

\* partTs ? partTs - unlock : null.  The test is the truthiness of the
\* timestamp: undefined and the number 0 are both falsy.
partOffset(ts, unlock) ==
    IF IsSome(ts) /\ Val(ts) # 0 THEN Some(Val(ts) - unlock) ELSE None

\* The times Map of one member: an entry for every day from 1 to num_days
\* that completion_day_level has an entry for.
memberTimes(member, num_days) ==
    [day \in {d \in 1..num_days : d \in DOMAIN member.completion_day_level} |->
        LET unlock == getPuzzleUnlock(day)
            dayData == member.completion_day_level[day]
        IN  [part1 |-> partOffset(getStarTs(dayData, 1), unlock),
             part2 |-> partOffset(getStarTs(dayData, 2), unlock)]]

memberName(member) ==
    IF member.name # "" THEN member.name
    ELSE "Anonymous #" \o ToString(member.id)

\* The memberStats array, in the order of members.
buildMemberStats(members, num_days) ==
    [i \in 1..Len(members) |->
        [name |-> memberName(members[i]),
         score |-> members[i].local_score,
         stars |-> members[i].stars,
         times |-> memberTimes(members[i], num_days)]]

\* m.times.get(day)?.part1 and m.times.get(day)?.part2: absent when the Map
\* has no entry for the day or the part is null.
timeOf(m, day, part) ==
    IF day \in DOMAIN m.times
      THEN (IF part = 1 THEN m.times[day].part1 ELSE m.times[day].part2)
      ELSE None

\* A slip Math.round could be replaced by: Math.trunc.
MathTrunc(total, count) ==
    IF total >= 0 THEN total \div count ELSE -((-total) \div count)

\* A slip Math.round could be replaced by: Math.floor.
MathFloor(total, count) == total \div count

\* Math.round(total / count) for count > 0: the integer nearest to the
\* quotient, a quotient halfway between two integers going to the larger
\* one, which is floor(total / count + 1/2).
MathRound(total, count) == (2 * total + count) \div (2 * count)

\* The totals and counts of one day and one part, over memberStats.
partTotals(stats, day, part) ==
    LET acc[i \in 0..Len(stats)] ==
            IF i = 0 THEN [total |-> 0, count |-> 0]
            ELSE LET t == timeOf(stats[i], day, part)
                 IN  IF IsSome(t)
                       THEN [total |-> acc[i - 1].total + Val(t),
                             count |-> acc[i - 1].count + 1]
                       ELSE acc[i - 1]
    IN  acc[Len(stats)]

average(sum) ==
    IF sum.count > 0 THEN Some(MathRound(sum.total, sum.count)) ELSE None

\* The dayAverages Map.
buildDayAverages(stats, num_days) ==
    [day \in 1..num_days |->
        [avgP1 |-> average(partTotals(stats, day, 1)),
         avgP2 |-> average(partTotals(stats, day, 2))]]

(***************************************************************************)
(* The rendering of main.  The two glyphs of the star column, U+2605 and   *)
(* U+2606, are written "*" and "o".                                        *)
(***************************************************************************)
FilledStar == "*"
HollowStar == "o"

Line(kind) == [kind |-> kind]

\* console.log('Fetching Advent of Code 2025 leaderboard...\n')
FetchingLine == Line("fetching")

\* `Advent of Code ${data.event} · ${members.length} members · ${data.num_days} days\n`
headline(data, members) ==
    [kind |-> "headline", event |-> data.event, members |-> Len(members),
     days |-> data.num_days]

leaderboardHead ==
    << Line("lb_top"), Line("lb_title"), Line("lb_title_sep"),
       Line("lb_columns"), Line("lb_columns_sep") >>

\* String.prototype.repeat throws a RangeError for a negative count.
rowThrows(m, num_days) == m.stars < 0 \/ num_days * 2 - m.stars < 0

starsDisplay(m, num_days) ==
    slice(repeat(FilledStar, m.stars)
            \o repeat(HollowStar, num_days * 2 - m.stars), StarsWidth)

leaderboardRow(stats, i, num_days) ==
    [kind |-> "lb_row",
     rank |-> padStart(ToString(i), RankWidth),
     name |-> padEnd(slice(stats[i].name, NameWidth), NameWidth),
     score |-> padStart(ToString(stats[i].score), ScoreWidth),
     stars |-> starsDisplay(stats[i], num_days)]

\* A slip the table loop could have: it starts at the second entry.
leaderboardRowsFromSecond(stats, num_days) ==
    LET throwing == {i \in 2..Len(stats) : rowThrows(stats[i], num_days)}
        last == IF throwing = {} THEN Len(stats)
                ELSE (CHOOSE i \in throwing : \A j \in throwing : i <= j) - 1
    IN  [lines |-> [k \in 1..(IF last >= 2 THEN last - 1 ELSE 0) |->
                      leaderboardRow(stats, k + 1, num_days)],
         threw |-> throwing # {}]

\* The loop over memberStats: the rows written, and whether the loop was
\* left by an exception (the rows before the throwing one are written).
leaderboardRows(stats, num_days) ==
    LET throwing == {i \in 1..Len(stats) : rowThrows(stats[i], num_days)}
        last == IF throwing = {} THEN Len(stats)
                ELSE (CHOOSE i \in throwing : \A j \in throwing : i <= j) - 1
    IN  [lines |-> [i \in 1..last |-> leaderboardRow(stats, i, num_days)],
         threw |-> throwing # {}]

\* memberStats.filter(part1 != null).map(...): the completions of a day,
\* before they are sorted.
completers(stats, day) ==
    LET kept == SelectSeq(stats, LAMBDA m : IsSome(timeOf(m, day, 1)))
    IN  [i \in 1..Len(kept) |->
           [name |-> kept[i].name,
            p1 |-> Val(timeOf(kept[i], day, 1)),
            p2 |-> timeOf(kept[i], day, 2)]]

dayCompletionsOf(stats, day) == sort(completers(stats, day), "completions")

\* A duration column: formatDuration(x).padStart(11), or '-'.padStart(11)
\* for null.
durationCell(o) ==
    IF IsSome(o) THEN padStart(formatDuration(Val(o)), DurationWidth)
    ELSE padStart("-", DurationWidth)

dayRow(day, completions, i) ==
    [kind |-> "day_row", day |-> day,
     rank |-> padStart(ToString(i), RankWidth),
     name |-> padEnd(slice(completions[i].name, NameWidth), NameWidth),
     p1 |-> padStart(formatDuration(completions[i].p1), DurationWidth),
     p2 |-> durationCell(completions[i].p2)]

DayLine(kind, day) == [kind |-> kind, day |-> day]

\* One iteration of the loop over the days: nothing for a day without
\* completions.
dayTable(stats, averages, day) ==
    LET dayCompletions == dayCompletionsOf(stats, day)
    IN  IF Len(dayCompletions) = 0 THEN <<>>
        ELSE << DayLine("day_blank", day), DayLine("day_top", day),
                [kind |-> "day_title", day |-> day,
                 text |-> padEnd(ToString(day), 54)],
                DayLine("day_title_sep", day), DayLine("day_columns", day),
                DayLine("day_columns_sep", day) >>
             \o [i \in 1..Len(dayCompletions) |-> dayRow(day, dayCompletions, i)]
             \o << DayLine("day_rows_sep", day),
                   [kind |-> "day_average", day |-> day,
                    avgP1 |-> durationCell(averages[day].avgP1),
                    avgP2 |-> durationCell(averages[day].avgP2)],
                   DayLine("day_bottom", day) >>

dailyBreakdown(stats, averages, num_days) ==
    LET upTo[d \in 0..num_days] ==
            IF d = 0 THEN <<>> ELSE upTo[d - 1] \o dayTable(stats, averages, d)
    IN  upTo[num_days]

\* main from the line after `await response.json()` to its end, which runs
\* without suspension: the lines written to standard output, the locals
\* members, memberStats and dayAverages, and the exception that ended it,
\* if one did.  Object.values throws a TypeError when data.members is
\* undefined.
runMain(data) ==
    IF ~data.hasMembers
      THEN [lines |-> <<>>, members |-> <<>>, memberStats |-> <<>>,
            dayAverages |-> <<>>,
            error |-> Some("TypeError: Cannot convert undefined or null to object")]
    ELSE LET members == sortedMembers(data)
             stats == buildMemberStats(members, data.num_days)
             averages == buildDayAverages(stats, data.num_days)
             rows == leaderboardRows(stats, data.num_days)
             head == <<headline(data, members)>> \o leaderboardHead \o rows.lines
         IN  [lines |-> IF rows.threw THEN head
                        ELSE head \o <<Line("lb_bottom")>>
                               \o dailyBreakdown(stats, averages, data.num_days),
              members |-> members, memberStats |-> stats,
              dayAverages |-> averages,
              error |-> IF rows.threw
                          THEN Some("RangeError: Invalid count value")
                          ELSE None]

(***************************************************************************)
(* The inputs explored.  Invocations: the three forms of the command line  *)
(* and the environment.  Snapshots: a ranking family, whose members vary   *)
(* in their keys, their order in the document and the three values the     *)
(* ranking compares; a daily family, whose members vary in what they have  *)
(* completed on each day; and payloads that are not valid snapshots.       *)
(***************************************************************************)
UrlArg(text, valid, id, key) ==
    [text |-> text, includesHost |-> TRUE, validURL |-> valid,
     pathId |-> id, viewKey |-> key]
PlainArg(text) ==
    [text |-> text, includesHost |-> FALSE, validURL |-> FALSE,
     pathId |-> None, viewKey |-> None]

UrlOk ==
    UrlArg("https://adventofcode.com/2025/leaderboard/private/view/12345?view_key=abc123",
           TRUE, Some("12345"), Some("abc123"))
UrlNoId ==
    UrlArg("https://adventofcode.com/2025/leaderboard/private?view_key=abc123",
           TRUE, None, Some("abc123"))
UrlNoKey ==
    UrlArg("https://adventofcode.com/2025/leaderboard/private/view/12345",
           TRUE, Some("12345"), None)
UrlEmptyKey ==
    UrlArg("https://adventofcode.com/2025/leaderboard/private/view/12345?view_key=",
           TRUE, Some("12345"), Some(""))
UrlNoScheme ==
    UrlArg("adventofcode.com/2025/leaderboard/private/view/12345?view_key=abc123",
           FALSE, None, None)

Environment(id, key) ==
    [ADVENT_OF_CODE_LEADERBOARD_ID |-> id, ADVENT_OF_CODE_VIEW_KEY |-> key]
Environments ==
    {Environment(id, key) : id \in {None, Some(""), Some("24680")},
                            key \in {None, Some(""), Some("envkey")}}
NoEnvironment == Environment(None, None)
FullEnvironment == Environment(Some("24680"), Some("envkey"))

Invocations ==
    ({<<UrlOk>>, <<UrlNoId>>, <<UrlNoKey>>, <<UrlEmptyKey>>, <<UrlNoScheme>>}
        \X {NoEnvironment})
    \cup ({<<UrlNoId>>, <<UrlNoScheme>>, <<PlainArg("67890"), PlainArg("xyz789")>>}
            \X {FullEnvironment})
    \cup ({<<>>, <<PlainArg("67890")>>, <<PlainArg(""), PlainArg("xyz789")>>,
           <<PlainArg("67890"), PlainArg("")>>} \X Environments)
    \cup {<< <<PlainArg("67890"), PlainArg("xyz789")>>, NoEnvironment >>}

\* The statuses the endpoint answers with, and their reason phrases.
Statuses == {200, 404, 500}
statusText(status) ==
    CASE status = 200 -> "OK"
      [] status = 404 -> "Not Found"
      [] OTHER -> "Internal Server Error"

NameOf(id) ==
    CASE id = 1 -> "A"
      [] id = 2 -> "B"
      [] id = 3 -> ""
      [] OTHER -> "A participant with a name of forty-one chars"

Key(index, n) == [index |-> index, n |-> n]
Entry(key, member) == [key |-> key, value |-> member]
Snapshot(num_days, entries) ==
    [event |-> "2025", num_days |-> num_days, hasMembers |-> TRUE,
     members |-> entries]

\* The ranking family.
RankKeys == {Key(TRUE, 1), Key(TRUE, 2), Key(FALSE, 3), Key(FALSE, 4)}
RankProfiles ==
    {[local_score |-> 2, stars |-> 1, last_star_ts |-> DAY_1_UNLOCK + 200],
     [local_score |-> 1, stars |-> 2, last_star_ts |-> DAY_1_UNLOCK + 100],
     [local_score |-> 1, stars |-> 2, last_star_ts |-> DAY_1_UNLOCK + 200],
     [local_score |-> 1, stars |-> 1, last_star_ts |-> DAY_1_UNLOCK + 100]}
RankedMember(key, profile) ==
    [id |-> key.n, name |-> NameOf(key.n), stars |-> profile.stars,
     local_score |-> profile.local_score,
     last_star_ts |-> profile.last_star_ts, completion_day_level |-> <<>>]
\* The orders in which k distinct keys may appear in the document.
RankingKeys(k) ==
    {f \in [1..k -> RankKeys] : \A i, j \in 1..k : i # j => f[i] # f[j]}
RankingSnapshot(keys, profiles) ==
    Snapshot(1, [i \in 1..Len(keys) |->
                   Entry(keys[i], RankedMember(keys[i], profiles[i]))])

\* The daily family.
Parts(ts1, ts2) ==
    [part \in {p \in {1, 2} : IsSome(IF p = 1 THEN ts1 ELSE ts2)} |->
        [get_star_ts |-> Val(IF part = 1 THEN ts1 ELSE ts2)]]
\* What a member may have for a day: each part unsolved, solved so many
\* seconds after (or before) the unlock, or solved at the epoch's zero.
AtEpoch == [epoch |-> TRUE, after |-> 0]
After(seconds) == [epoch |-> FALSE, after |-> seconds]
DayPatterns ==
    {<<Some(After(10)), None>>,
     <<Some(After(65)), Some(After(130))>>,
     <<Some(After(0 - 1)), Some(After(0))>>,
     <<Some(After(0)), None>>,
     <<Some(After(0 - 2)), None>>,
     <<None, Some(After(130))>>,
     <<Some(AtEpoch), None>>,
     <<None, None>>}
StampOf(day, solved) ==
    IF solved = None THEN None
    ELSE IF Val(solved).epoch THEN Some(0)
    ELSE Some(getPuzzleUnlock(day) + Val(solved).after)
DayDataOf(day, pattern) ==
    Parts(StampOf(day, pattern[1]), StampOf(day, pattern[2]))
CompletionLevels(num_days) ==
    UNION {{[d \in days |-> DayDataOf(d, patterns[d])] :
              patterns \in [days -> DayPatterns]} :
           days \in SUBSET (1..num_days)}
SolvedParts(level) ==
    {c \in (DOMAIN level) \X {1, 2} : c[2] \in DOMAIN level[c[1]]}
LastStarOf(level) ==
    LET stamps == {level[c[1]][c[2]].get_star_ts : c \in SolvedParts(level)}
    IN  IF stamps = {} THEN 0
        ELSE CHOOSE t \in stamps : \A other \in stamps : other <= t
\* A member of the daily family: the stars and the score count the parts
\* solved, the last star's timestamp is the latest of them.
Solver(id, level) ==
    [id |-> id, name |-> NameOf(id),
     stars |-> Cardinality(SolvedParts(level)),
     local_score |-> Cardinality(SolvedParts(level)),
     last_star_ts |-> LastStarOf(level), completion_day_level |-> level]
\* The members appear in the document from the largest identifier down.
DailySnapshot(num_days, levels) ==
    Snapshot(num_days,
             [i \in 1..Len(levels) |->
                Entry(Key(TRUE, Len(levels) + 1 - i),
                      Solver(Len(levels) + 1 - i, levels[Len(levels) + 1 - i]))])
\* The numbers of members and of days of the snapshots of the daily family.
DailyShapes ==
    {sh \in (1..MaxSolvers) \X (1..MaxDays) : sh[1] * sh[2] <= MaxCells}

\* Payloads that are not valid snapshots: an object without members, and
\* members one of whom has more stars than the days have.
Overbooked(id, score) ==
    [id |-> id, name |-> NameOf(id), stars |-> 3, local_score |-> score,
     last_star_ts |-> DAY_1_UNLOCK + 100, completion_day_level |-> <<>>]
Regular(id, score) ==
    [id |-> id, name |-> NameOf(id), stars |-> 2, local_score |-> score,
     last_star_ts |-> DAY_1_UNLOCK + 100, completion_day_level |-> <<>>]
InvalidPayloads ==
    {[event |-> "2025", num_days |-> 1, hasMembers |-> FALSE, members |-> <<>>],
     Snapshot(1, <<Entry(Key(TRUE, 1), Overbooked(1, 5)),
                   Entry(Key(TRUE, 2), Regular(2, 9))>>),
     Snapshot(1, <<Entry(Key(TRUE, 1), Overbooked(1, 9)),
                   Entry(Key(TRUE, 2), Regular(2, 5))>>)}

\* The example of the averages: three members whose part 1 of day 1 took
\* 10, 20 and 21 seconds.
ExampleSnapshots ==
    {Snapshot(1, [i \in 1..3 |->
                    Entry(Key(TRUE, i),
                          Solver(i, [d \in {1} |->
                                       Parts(Some(getPuzzleUnlock(1)
                                                    + <<10, 20, 21>>[i]),
                                             None)]))])}

\* What the spec calls a valid snapshot: the members are there and every
\* member's stars lie between 0 and 2 * num_days.
ValidSnapshot(payload) ==
    /\ payload.hasMembers
    /\ \A i \in 1..Len(payload.members) :
          /\ payload.members[i].value.stars >= 0
          /\ payload.members[i].value.stars <= 2 * payload.num_days

\* The leaderboard whose snapshots are explored in full.
Studied(config) ==
    config.leaderboardId = "12345" /\ config.viewKey = "abc123"

\* The other documents the endpoint may answer with, by leaderboard and
\* view key.
OtherDocuments(config) ==
    IF Studied(config)
      THEN ExampleSnapshots \cup InvalidPayloads
    ELSE IF config.leaderboardId = "67890" /\ config.viewKey = "xyz789"
      THEN {Snapshot(1, <<Entry(Key(TRUE, 1), Regular(1, 2))>>)}
    ELSE IF config.leaderboardId = "24680" /\ config.viewKey = "envkey"
      THEN {Snapshot(MaxDays, <<>>)}
    ELSE {}

\* The inputs of formatDuration explored on its own.
DurationInputs ==
    ((0 - 3)..MaxSeconds)
    \cup {d * 86400 + r : d \in 1..MaxWholeDays,
                          r \in {0, 59, 60, 3599, 3600, 3661, 86399}}

(***************************************************************************)
(* The state of a run.                                                     *)
(***************************************************************************)
VARIABLES
    pc,           \* where the process is: start, main, fetched, parsed,
                  \* settled (the promise of main is settled), exited
    argv,         \* process.argv.slice(2)
    env,          \* process.env
    config,       \* LEADERBOARD_ID and VIEW_KEY, once parseArgs has returned
    netCalls,     \* the calls of fetch made
    response,     \* the response of fetch, once it has resolved
    data,         \* the document response.json() resolved with
    members,      \* the local members of main
    memberStats,  \* the local memberStats of main
    dayAverages,  \* the local dayAverages of main
    stdout,       \* the lines written with console.log
    stderr,       \* the lines written with console.error or by the runtime
    rejection,    \* the error the promise of main is rejected with
    exitCode,     \* the exit code of the process, once it has exited
    fmtIn,        \* an argument of formatDuration
    fmtOut        \* the string formatDuration returned for it

vars == <<pc, argv, env, config, netCalls, response, data, members,
          memberStats, dayAverages, stdout, stderr, rejection, exitCode,
          fmtIn, fmtOut>>

locals == <<members, memberStats, dayAverages>>
fmtVars == <<fmtIn, fmtOut>>

Start ==
    /\ pc = "start"
    /\ config = None
    /\ netCalls = 0
    /\ response = None
    /\ data = None
    /\ members = <<>>
    /\ memberStats = <<>>
    /\ dayAverages = <<>>
    /\ stdout = <<>>
    /\ stderr = <<>>
    /\ rejection = None
    /\ exitCode = None

Init ==
    /\ Start
    /\ \E inv \in Invocations : argv = inv[1] /\ env = inv[2]
    /\ fmtIn = 0
    /\ fmtOut = None

(***************************************************************************)
(* The module's top level: const {...} = parseArgs().                      *)
(***************************************************************************)
\* parseArgs returns: the identifier and the key are bound, main is called.
ResolveArgs ==
    /\ pc = "start"
    /\ parseArgs(argv, env).kind = "return"
    /\ config' = Some([leaderboardId |-> parseArgs(argv, env).leaderboardId,
                       viewKey |-> parseArgs(argv, env).viewKey])
    /\ pc' = "main"
    /\ UNCHANGED <<argv, env, netCalls, response, data, locals, stdout,
                   stderr, rejection, exitCode, fmtVars>>

\* parseArgs writes a message with console.error and calls process.exit(1).
UsageExit ==
    /\ pc = "start"
    /\ parseArgs(argv, env).kind = "exit"
    /\ stderr' = stderr \o parseArgs(argv, env).stderr
    /\ exitCode' = Some(1)
    /\ pc' = "exited"
    /\ UNCHANGED <<argv, env, config, netCalls, response, data, locals,
                   stdout, rejection, fmtVars>>

\* new URL throws in parseArgs: the exception is not caught, the runtime
\* writes it to the error stream and the process exits with code 1.
UncaughtAtLoad ==
    /\ pc = "start"
    /\ parseArgs(argv, env).kind = "throw"
    /\ stderr' = stderr \o parseArgs(argv, env).stderr
    /\ exitCode' = Some(1)
    /\ pc' = "exited"
    /\ UNCHANGED <<argv, env, config, netCalls, response, data, locals,
                   stdout, rejection, fmtVars>>

(***************************************************************************)
(* main.                                                                   *)
(***************************************************************************)
\* main runs up to its first suspension: the first line is written and fetch
\* is called; main then waits at `await fetch(...)` and control returns to
\* the event loop with the request pending.
CallFetch ==
    /\ pc = "main"
    /\ stdout' = Append(stdout, FetchingLine)
    /\ netCalls' = netCalls + 1
    /\ pc' = "fetching"
    /\ UNCHANGED <<argv, env, config, response, data, locals, stderr,
                   rejection, exitCode, fmtVars>>

\* The pending promise of fetch is rejected (the network read fails), which
\* rejects the promise of main.
FetchRejects ==
    /\ pc = "fetching"
    /\ rejection' = Some("TypeError: fetch failed")
    /\ pc' = "settled"
    /\ UNCHANGED <<argv, env, config, netCalls, response, data, locals,
                   stdout, stderr, exitCode, fmtVars>>

\* The pending promise of fetch resolves with a response and main resumes.
FetchResponds ==
    /\ pc = "fetching"
    /\ \E status \in Statuses :
          response' = Some([status |-> status,
                            ok |-> status >= 200 /\ status <= 299,
                            statusText |-> statusText(status)])
    /\ pc' = "fetched"
    /\ UNCHANGED <<argv, env, config, netCalls, data, locals, stdout,
                   stderr, rejection, exitCode, fmtVars>>

\* if (!response.ok): the failure is written and process.exit(1) is called.
ResponseNotOk ==
    /\ pc = "fetched"
    /\ ~Val(response).ok
    /\ stderr' = Append(stderr, "Failed to fetch: "
                                  \o ToString(Val(response).status) \o " "
                                  \o Val(response).statusText)
    /\ exitCode' = Some(1)
    /\ pc' = "exited"
    /\ UNCHANGED <<argv, env, config, netCalls, response, data, locals,
                   stdout, rejection, fmtVars>>

\* await response.json() is rejected: the body cannot be read or is not
\* JSON.
JsonRejects ==
    /\ pc = "fetched"
    /\ Val(response).ok
    /\ rejection' = Some("SyntaxError: Unexpected token in JSON")
    /\ pc' = "settled"
    /\ UNCHANGED <<argv, env, config, netCalls, response, data, locals,
                   stdout, stderr, exitCode, fmtVars>>

\* await response.json() can resolve: the response is there and it is ok.
CanReadJson == pc = "fetched" /\ Val(response).ok

\* await response.json() resolves with the document.
JsonResolves(payload) ==
    /\ data' = Some(payload)
    /\ pc' = "parsed"
    /\ UNCHANGED <<argv, env, config, netCalls, response, locals, stdout,
                   stderr, rejection, exitCode, fmtVars>>

\* The document is a snapshot of the ranking family.
ReadRanking ==
    /\ CanReadJson
    /\ Studied(Val(config))
    /\ \E k \in 0..MaxRanked :
          \E keys \in RankingKeys(k), profiles \in [1..k -> RankProfiles] :
             JsonResolves(RankingSnapshot(keys, profiles))

\* The document is a snapshot of the daily family.
ReadDaily ==
    /\ CanReadJson
    /\ Studied(Val(config))
    /\ \E shape \in DailyShapes :
          \E levels \in [1..shape[1] -> CompletionLevels(shape[2])] :
             JsonResolves(DailySnapshot(shape[2], levels))

\* The document is one of the others.
ReadOther ==
    /\ CanReadJson
    /\ \E payload \in OtherDocuments(Val(config)) : JsonResolves(payload)

\* The rest of main, which runs without suspension: the statistics, the
\* overall table and the per-day tables, or the part of them written before
\* an exception.
Render ==
    /\ pc = "parsed"
    /\ LET run == runMain(Val(data))
       IN  /\ members' = run.members
           /\ memberStats' = run.memberStats
           /\ dayAverages' = run.dayAverages
           /\ stdout' = stdout \o run.lines
           /\ rejection' = run.error
    /\ pc' = "settled"
    /\ UNCHANGED <<argv, env, config, netCalls, response, data, stderr,
                   exitCode, fmtVars>>

\* main().catch(console.error): the rejection is written to the error
\* stream; nothing sets an exit code, so the process ends with code 0.
CatchError ==
    /\ pc = "settled"
    /\ IsSome(rejection)
    /\ stderr' = Append(stderr, Val(rejection))
    /\ exitCode' = Some(0)
    /\ pc' = "exited"
    /\ UNCHANGED <<argv, env, config, netCalls, response, data, locals,
                   stdout, rejection, fmtVars>>

\* main returned: the process ends with code 0.
ExitNormally ==
    /\ pc = "settled"
    /\ rejection = None
    /\ exitCode' = Some(0)
    /\ pc' = "exited"
    /\ UNCHANGED <<argv, env, config, netCalls, response, data, locals,
                   stdout, stderr, rejection, fmtVars>>

Next ==
    \/ ResolveArgs
    \/ UsageExit
    \/ UncaughtAtLoad
    \/ CallFetch
    \/ FetchRejects
    \/ FetchResponds
    \/ ResponseNotOk
    \/ JsonRejects
    \/ ReadRanking
    \/ ReadDaily
    \/ ReadOther
    \/ Render
    \/ CatchError
    \/ ExitNormally

Spec == Init /\ [][Next]_vars

(***************************************************************************)
(* formatDuration on its own: an input is drawn, the function is applied.  *)
(***************************************************************************)
InitDuration ==
    /\ Start
    /\ argv = <<>>
    /\ env = NoEnvironment
    /\ fmtIn \in DurationInputs
    /\ fmtOut = None

Format ==
    /\ fmtOut = None
    /\ fmtOut' = Some(formatDuration(fmtIn))
    /\ UNCHANGED <<pc, argv, env, config, netCalls, response, data, locals,
                   stdout, stderr, rejection, exitCode, fmtIn>>

NextDuration == Format

SpecDuration == InitDuration /\ [][NextDuration]_vars

(***************************************************************************)
(* What the claims speak of.                                               *)
(***************************************************************************)
\* The rest of main has run on a document.
Rendered == pc \in {"settled", "exited"} /\ IsSome(data)
Snap == Val(data)

\* The lines of standard output that belong to a table.
TableLines ==
    SelectSeq(stdout, LAMBDA l : l.kind \notin {"fetching", "headline"})
OverallRows == SelectSeq(stdout, LAMBDA l : l.kind = "lb_row")
DayKinds ==
    {"day_blank", "day_top", "day_title", "day_title_sep", "day_columns",
     "day_columns_sep", "day_row", "day_rows_sep", "day_average",
     "day_bottom"}
DayLinesOf(d) ==
    SelectSeq(stdout, LAMBDA l : l.kind \in DayKinds /\ l.day = d)
DayRows(d) == SelectSeq(stdout, LAMBDA l : l.kind = "day_row" /\ l.day = d)
CountOf(kind, d) ==
    Cardinality({k \in 1..Len(stdout) :
                   stdout[k].kind = kind /\ stdout[k].day = d})

RankShown(k) == padStart(ToString(k), RankWidth)
NameShown(member) == padEnd(slice(memberName(member), NameWidth), NameWidth)
Duration(text) == padStart(text, DurationWidth)
UnlockOf(d) == DAY_1_UNLOCK + (d - 1) * 86400

\* The timestamp the snapshot has for a member, a day and a part.
StampIn(member, d, p) ==
    IF d \in DOMAIN member.completion_day_level
         /\ p \in DOMAIN member.completion_day_level[d]
      THEN Some(member.completion_day_level[d][p].get_star_ts)
      ELSE None

(***************************************************************************)
(* C1.                                                                     *)
(***************************************************************************)
RankedBefore(a, b) ==
    \/ a.local_score > b.local_score
    \/ a.local_score = b.local_score /\ a.stars > b.stars
    \/ /\ a.local_score = b.local_score
       /\ a.stars = b.stars
       /\ a.last_star_ts <= b.last_star_ts

\* C1: for every valid snapshot the rows of the overall table are the
\* snapshot's members in the order of the three-key comparator: of two
\* adjacent rows the upper has the higher local score, or the same score and
\* more stars, or the same score and stars and a last star that is not later.
C1_OverallOrdered ==
    (Rendered /\ ValidSnapshot(Snap)) =>
        /\ Len(OverallRows) = Len(members)
        /\ \A i \in 1..Len(members) :
              /\ \E j \in 1..Len(Snap.members) : Snap.members[j].value = members[i]
              /\ OverallRows[i].rank = RankShown(i)
              /\ OverallRows[i].name = NameShown(members[i])
              /\ OverallRows[i].score
                   = padStart(ToString(members[i].local_score), ScoreWidth)
        /\ \A i \in 1..(Len(members) - 1) :
              RankedBefore(members[i], members[i + 1])

\* Three members are ranked, the first by its score, the last two by the
\* timestamp of their last star, and the document had them in another order.
C1_Witness ==
    /\ Rendered /\ ValidSnapshot(Snap)
    /\ Len(OverallRows) = 3
    /\ members[1].local_score > members[2].local_score
    /\ members[2].local_score = members[3].local_score
    /\ members[2].stars = members[3].stars
    /\ members[2].last_star_ts < members[3].last_star_ts
    /\ Snap.members[1].value = members[3]

(***************************************************************************)
(* C2.                                                                     *)
(***************************************************************************)
Reversed(seq) == [i \in 1..Len(seq) |-> seq[Len(seq) + 1 - i]]
RowsFor(payload) ==
    leaderboardRows(buildMemberStats(sortedMembers(payload), payload.num_days),
                    payload.num_days).lines

\* C2: the rows of the overall table do not depend on the order of the
\* members in the input mapping: the same members enumerated in the reverse
\* order give the same sequence of rows, also when two members are equal on
\* score, stars and last star.
C2_OrderIndependent ==
    (Rendered /\ ValidSnapshot(Snap)) =>
        OverallRows = RowsFor([Snap EXCEPT !.members = Reversed(@)])

(***************************************************************************)
(* C3.                                                                     *)
(***************************************************************************)
\* The members that the snapshot says completed part 1 of day d.
Part1Solvers(d) ==
    {j \in 1..Len(Snap.members) : IsSome(StampIn(Snap.members[j].value, d, 1))}
Part1Offset(j, d) == Val(StampIn(Snap.members[j].value, d, 1)) - UnlockOf(d)
SolverOfRow(row, d) ==
    CHOOSE j \in Part1Solvers(d) : NameShown(Snap.members[j].value) = row.name

\* C3: for every day d in 1..num_days, no table is written when nobody has
\* a completion on d (a completion of a day being counted by its part 1),
\* and otherwise exactly one table, whose rows are exactly the members who
\* completed part 1 of d, each once, ranked 1..k, in ascending order of the
\* part-1 offset; and the tables follow each other in increasing day order.
C3_DayTables ==
    (Rendered /\ ValidSnapshot(Snap)) =>
        /\ \A d \in 1..Snap.num_days :
              IF Part1Solvers(d) = {} THEN DayLinesOf(d) = <<>>
              ELSE /\ CountOf("day_top", d) = 1
                   /\ CountOf("day_bottom", d) = 1
                   /\ Len(DayRows(d)) = Cardinality(Part1Solvers(d))
                   /\ \A j \in Part1Solvers(d) :
                         Cardinality({k \in 1..Len(DayRows(d)) :
                                        DayRows(d)[k].name
                                          = NameShown(Snap.members[j].value)}) = 1
                   /\ \A k \in 1..Len(DayRows(d)) :
                         DayRows(d)[k].rank = RankShown(k)
                   /\ \A k \in 1..(Len(DayRows(d)) - 1) :
                         Part1Offset(SolverOfRow(DayRows(d)[k], d), d)
                           <= Part1Offset(SolverOfRow(DayRows(d)[k + 1], d), d)
        /\ \A k1, k2 \in 1..Len(stdout) :
              (k1 < k2 /\ stdout[k1].kind \in DayKinds
                       /\ stdout[k2].kind \in DayKinds)
                => stdout[k1].day <= stdout[k2].day

(***************************************************************************)
(* C4.                                                                     *)
(***************************************************************************)
\* C4: for every member, every day d in 1..num_days and each part, the
\* offset is present exactly when the snapshot has the part's timestamp, and
\* is then the timestamp minus DAY_1_UNLOCK + (d - 1) * 86400, whatever its
\* sign; an absent timestamp gives an absent offset.
C4_OffsetsPresent ==
    (Rendered /\ Snap.hasMembers) =>
        \A i \in 1..Len(members), d \in 1..Snap.num_days, p \in {1, 2} :
            LET ts == StampIn(members[i], d, p)
                offset == timeOf(memberStats[i], d, p)
            IN  /\ IsSome(offset) <=> IsSome(ts)
                /\ IsSome(ts) => offset = Some(Val(ts) - UnlockOf(d))

(***************************************************************************)
(* C5.                                                                     *)
(***************************************************************************)
WithOffset(d, p) ==
    {i \in 1..Len(memberStats) : IsSome(timeOf(memberStats[i], d, p))}
RECURSIVE SumOfOffsets(_, _, _)
SumOfOffsets(S, d, p) ==
    IF S = {} THEN 0
    ELSE LET i == CHOOSE x \in S : TRUE
         IN  Val(timeOf(memberStats[i], d, p)) + SumOfOffsets(S \ {i}, d, p)
AverageOf(d, p) ==
    IF p = 1 THEN dayAverages[d].avgP1 ELSE dayAverages[d].avgP2
ShownAverage(line, p) == IF p = 1 THEN line.avgP1 ELSE line.avgP2

\* a is the integer nearest to total / count; of a quotient halfway between
\* two integers, the rule "up" takes the larger one and the rule "away" the
\* one farther from zero.
Nearest(rule, total, count, a) ==
    IF rule = "up" \/ total >= 0
      THEN /\ 2 * count * a - count <= 2 * total
           /\ 2 * total < 2 * count * a + count
      ELSE /\ 2 * count * a - count < 2 * total
           /\ 2 * total <= 2 * count * a + count

AveragesRounded(rule) ==
    (Rendered /\ Snap.hasMembers) =>
        /\ \A d \in 1..Snap.num_days, p \in {1, 2} :
              LET count == Cardinality(WithOffset(d, p))
                  total == SumOfOffsets(WithOffset(d, p), d, p)
              IN  /\ count = 0 => AverageOf(d, p) = None
                  /\ count > 0 =>
                        /\ IsSome(AverageOf(d, p))
                        /\ Nearest(rule, total, count, Val(AverageOf(d, p)))
                  /\ \A k \in 1..Len(stdout) :
                        (stdout[k].kind = "day_average" /\ stdout[k].day = d)
                          => ShownAverage(stdout[k], p)
                               = (IF count = 0 THEN Duration("-")
                                  ELSE Duration(formatDuration(Val(AverageOf(d, p)))))
        /\ Snap \in ExampleSnapshots => dayAverages[1].avgP1 = Some(17)

\* C5, as amended: for every day and each part, the average is absent when no
\* member has an offset for the part, and is otherwise the mean of all the
\* present offsets rounded to the nearest integer, an exact half going up
\* (towards positive infinity), which for a sum that is not negative is half
\* away from zero; the offsets 10, 20, 21 give 17.
C5_AveragesHalfUp == AveragesRounded("up")

\* C5, as stated: the same with an exact half going away from zero, for
\* negative sums as well.
C5_AveragesHalfAway == AveragesRounded("away")

\* Two members solved part 1 of a day one second before the unlock and at the
\* unlock: the mean is -0.5 and the average is 0.
C5_Witness ==
    /\ Rendered /\ Snap.hasMembers
    /\ \E d \in 1..Snap.num_days :
          /\ Cardinality(WithOffset(d, 1)) = 2
          /\ SumOfOffsets(WithOffset(d, 1), d, 1) = 0 - 1
          /\ dayAverages[d].avgP1 = Some(0)

(***************************************************************************)
(* C6.                                                                     *)
(***************************************************************************)
UnitsOf(s) ==
    [d |-> s \div 86400, h |-> (s % 86400) \div 3600,
     m |-> (s % 3600) \div 60, sec |-> s % 60]
ShownFor(s) ==
    IF s < 0 THEN "N/A"
    ELSE IF UnitsOf(s).d > 0
      THEN ToString(UnitsOf(s).d) \o "d " \o ToString(UnitsOf(s).h) \o "h "
             \o ToString(UnitsOf(s).m) \o "m"
    ELSE IF UnitsOf(s).h > 0
      THEN ToString(UnitsOf(s).h) \o "h " \o ToString(UnitsOf(s).m) \o "m "
             \o ToString(UnitsOf(s).sec) \o "s"
    ELSE IF UnitsOf(s).m > 0
      THEN ToString(UnitsOf(s).m) \o "m " \o ToString(UnitsOf(s).sec) \o "s"
    ELSE ToString(UnitsOf(s).sec) \o "s"

\* C6: formatDuration(s) is N/A for s < 0 and, for s >= 0 with d = s div
\* 86400, h = (s mod 86400) div 3600, m = (s mod 3600) div 60, sec = s mod 60,
\* is "Dd Hh Mm" if d > 0, else "Hh Mm Ss" if h > 0, else "Mm Ss" if m > 0,
\* else "Ss"; -1 gives N/A, 0 gives 0s, 65 gives 1m 5s, 3661 gives 1h 1m 1s,
\* 90000 gives 1d 1h 0m; the units shown satisfy h < 24, m < 60, sec < 60.
C6_FormatDuration ==
    IsSome(fmtOut) =>
        /\ Val(fmtOut) = ShownFor(fmtIn)
        /\ fmtIn = 0 - 1 => Val(fmtOut) = "N/A"
        /\ fmtIn = 0 => Val(fmtOut) = "0s"
        /\ fmtIn = 65 => Val(fmtOut) = "1m 5s"
        /\ fmtIn = 3661 => Val(fmtOut) = "1h 1m 1s"
        /\ fmtIn = 90000 => Val(fmtOut) = "1d 1h 0m"
        /\ fmtIn >= 0 =>
              /\ UnitsOf(fmtIn).h < 24
              /\ UnitsOf(fmtIn).m < 60
              /\ UnitsOf(fmtIn).sec < 60
              /\ UnitsOf(fmtIn).d * 86400 + UnitsOf(fmtIn).h * 3600
                   + UnitsOf(fmtIn).m * 60 + UnitsOf(fmtIn).sec = fmtIn

\* formatDuration has been applied to a day and an hour.
C6_Witness == fmtIn = 90000 /\ fmtOut = Some("1d 1h 0m")

(***************************************************************************)
(* C7.                                                                     *)
(***************************************************************************)
\* One day, two members: A solves part 1 65 seconds and part 2 130 seconds
\* after the unlock, B solves part 1 alone, 10 seconds after the unlock.
Scenario ==
    DailySnapshot(1,
        << [d \in {1} |-> Parts(Some(getPuzzleUnlock(1) + 65),
                                Some(getPuzzleUnlock(1) + 130))],
           [d \in {1} |-> Parts(Some(getPuzzleUnlock(1) + 10), None)] >>)

ScenarioTable(average1) ==
    /\ DayRows(1) = << [kind |-> "day_row", day |-> 1, rank |-> RankShown(1),
                        name |-> padEnd("B", NameWidth),
                        p1 |-> Duration("10s"), p2 |-> Duration("-")],
                       [kind |-> "day_row", day |-> 1, rank |-> RankShown(2),
                        name |-> padEnd("A", NameWidth),
                        p1 |-> Duration("1m 5s"), p2 |-> Duration("2m 10s")] >>
    /\ SelectSeq(stdout, LAMBDA l : l.kind = "day_average")
         = << [kind |-> "day_average", day |-> 1,
               avgP1 |-> Duration(average1), avgP2 |-> Duration("2m 10s")] >>

\* C7, as amended: in the scenario the table of day 1 lists B at rank 1 with
\* 10s and -, then A at rank 2 with 1m 5s and 2m 10s, and its average row
\* shows 38s for part 1 (the mean 37.5 rounded up) and 2m 10s for part 2.
C7_ScenarioRounded ==
    (Rendered /\ Snap = Scenario) => ScenarioTable("38s")

\* C7, as stated: the same with a part-1 average of 37s.
C7_ScenarioAsStated ==
    (Rendered /\ Snap = Scenario) => ScenarioTable("37s")

\* The scenario has been rendered and the process has exited.
C7_Witness ==
    /\ pc = "exited" /\ Rendered /\ Snap = Scenario
    /\ Len(DayRows(1)) = 2

(***************************************************************************)
(* C8.                                                                     *)
(***************************************************************************)
\* The overall table is closed and so is every per-day table begun.
CompleteRendering ==
    /\ Rendered
    /\ \E k \in 1..Len(stdout) : stdout[k].kind = "lb_bottom"
    /\ \A d \in 1..Snap.num_days : CountOf("day_top", d) = CountOf("day_bottom", d)

\* C8: a run either completes the rendering and exits with code 0, or ends
\* in an error, and then no line of a table has been written and the exit
\* code is not 0, whatever the error: usage, HTTP status, network read,
\* payload.
C8_AllOrNothing ==
    pc = "exited" =>
        IF stderr = <<>>
          THEN Val(exitCode) = 0 /\ CompleteRendering
          ELSE Val(exitCode) # 0 /\ TableLines = <<>>

(***************************************************************************)
(* C9.                                                                     *)
(***************************************************************************)
UrlForm == Len(argv) >= 1 /\ argv[1].includesHost
TwoPositional == Len(argv) >= 2 /\ argv[1].text # "" /\ argv[2].text # ""
\* The arguments and the environment do not resolve to an identifier and a
\* token: a URL from which the identifier or the view key cannot be had
\* (they are missing, or the text cannot be parsed as a URL at all), or fewer
\* than two positional values and an environment without both variables.
Unresolvable ==
    \/ /\ UrlForm
       /\ ~Truthy(argv[1].pathId) \/ ~Truthy(argv[1].viewKey)
    \/ /\ ~UrlForm /\ ~TwoPositional
       /\ \/ ~Truthy(env.ADVENT_OF_CODE_LEADERBOARD_ID)
          \/ ~Truthy(env.ADVENT_OF_CODE_VIEW_KEY)

\* C9: the arguments are resolved, then the fetch is made, then the tables
\* are rendered, with at most one network call; when the arguments and the
\* environment do not resolve, a usage message is written to the error
\* stream and the process ends with a non-zero code without a network call.
C9_ResolveFetchRender ==
    /\ netCalls \in {0, 1}
    /\ netCalls = 1 => IsSome(config)
    /\ stdout # <<>> => netCalls = 1
    /\ IsSome(response) => netCalls = 1
    /\ (IsSome(data) \/ TableLines # <<>>) => IsSome(response)
    /\ TableLines # <<>> => IsSome(data)
    /\ (Unresolvable /\ pc # "start") =>
          /\ pc = "exited"
          /\ netCalls = 0
          /\ stdout = <<>>
          /\ exitCode = Some(1)
          /\ stderr \in {UsageMessage, InvalidUrlMessage}
    /\ (pc = "exited" /\ config = None) =>
          /\ netCalls = 0
          /\ IsSome(exitCode) /\ Val(exitCode) # 0
          /\ stderr # <<>>

(***************************************************************************)
(* C10.                                                                    *)
(***************************************************************************)
NoCompletion(member, d) ==
    StampIn(member, d, 1) = None /\ StampIn(member, d, 2) = None

\* C10: for every valid snapshot the overall table has exactly one row per
\* member, ranked 1..N in sequence, whatever the member has completed: a
\* member without a completion for a day d has no offset for either part of
\* d and no row in the table of d, and still has its row in the overall
\* table.
C10_OneRowPerMember ==
    (Rendered /\ ValidSnapshot(Snap)) =>
        /\ Len(OverallRows) = Len(Snap.members)
        /\ \A k \in 1..Len(OverallRows) : OverallRows[k].rank = RankShown(k)
        /\ \A j \in 1..Len(Snap.members) :
              LET member == Snap.members[j].value
              IN  /\ Cardinality({k \in 1..Len(OverallRows) :
                                    /\ OverallRows[k].name = NameShown(member)
                                    /\ OverallRows[k].score
                                         = padStart(ToString(member.local_score),
                                                    ScoreWidth)}) = 1
                  /\ \A d \in 1..Snap.num_days :
                        NoCompletion(member, d) =>
                           /\ \E i \in 1..Len(members) :
                                 /\ members[i] = member
                                 /\ timeOf(memberStats[i], d, 1) = None
                                 /\ timeOf(memberStats[i], d, 2) = None
                           /\ \A k \in 1..Len(DayRows(d)) :
                                 DayRows(d)[k].name # NameShown(member)

\* A day has a table, a member without a completion for that day is not in
\* it, and the overall table has a row for every one of the members.
C10_Witness ==
    /\ pc = "exited" /\ Rendered /\ ValidSnapshot(Snap)
    /\ Len(OverallRows) = 3
    /\ \E d \in 1..Snap.num_days, j \in 1..Len(Snap.members) :
          /\ NoCompletion(Snap.members[j].value, d)
          /\ Len(DayRows(d)) = 2

====
